---- MODULE Spec2Model ----
(***************************************************************************)
(* Model of the reconciliation and event-transition core of the            *)
(* monitoring notifier: DatabaseActualizer (structure reconciliation),     *)
(* ZabbixController._collect_monitoring_events (problem transition         *)
(* detection) and Controller (event fan-out, subscriptions).               *)
(***************************************************************************)
EXTENDS Integers, FiniteSets, Sequences, TLC

\* ------------------------------------------------------------------ bounds
MaxGroup == 2
MaxHost == 1
MaxTrigger == 1
MaxTime == 3
MaxSink == 2
MaxProblem == 2
MaxOpdata == 1
MaxCall == 2

HostGroupIds == 1..MaxGroup
HostIds == 1..MaxHost
TriggerIds == 1..MaxTrigger
SinkIds == 1..MaxSink
ProblemIds == 1..MaxProblem
Opdata == 0..MaxOpdata

\* disabled_at = None / resolved_at = None
NULL == 0

\* owning host of a trigger (hosts[0].hostid of the trigger in the source)
TriggerHost(t) == ((t - 1) % MaxHost) + 1

\* trigger of a problem (objectid of the problem in the source)
ProblemTrigger(p) == ((p - 1) % MaxTrigger) + 1

VARIABLES
    \* Snapshot Source (Zabbix)
    zabbix_hosts,            \* set of <<hostid, groupid>>: host.get with selectGroups
    zabbix_triggers,         \* set of trigger ids: trigger.get
    \* Persisted Mirror
    host_group,              \* function id -> disabled_at
    host,                    \* set of host ids
    host_to_host_group,      \* set of <<host_id, host_group_id>>
    trigger,                 \* function id -> disabled_at
    notification_sink_to_trigger, \* set of <<notification_sink_id, trigger_id>>
    \* wall clock, seconds
    now,
    \* DatabaseActualizer loop
    actualizer_pc,           \* "tick", "sleep" or "crashed"
    failed_step,             \* step at which the tick just finished raised, 0 if none
    applied,                 \* mutations the tick just finished issued to the mirror
    settled,                 \* a tick completed and the source has not changed since
    \* ZabbixController._collect_monitoring_events loop
    collector_pc,            \* "init", "fetch", "dispatch", "sleep" or "crashed"
    previous_cycle_problems, \* function external_id -> opdata
    current_cycle_problems,  \* function external_id -> opdata
    events,                  \* sequence of MonitoringEvent
    event_index,             \* number of events of this tick already handled
    fetch_failed,            \* get_problems raised in the tick just finished
    handled,                 \* the fan-out of the event handled last in this tick
    first_tick,              \* no iteration of the loop has reached its sleep yet
    \* requests from the users of the notifier
    subscribe_returned,      \* result of the last subscribe_to_monitoring_system_triggers
    unresolved_events,       \* result of the last ZabbixController.get_unresolved_events
    sink_events,             \* the last Controller.get_unresolved_events call and its result
    subscribing,             \* sequence of the subscribe calls that await their insert
    \* the diff functions applied on their own
    cast_diff                \* the diff last computed, with its inputs

source_vars == <<zabbix_hosts, zabbix_triggers>>
mirror_vars == <<host_group, host, host_to_host_group, trigger>>
actualizer_vars == <<actualizer_pc, failed_step, applied, settled>>
collector_vars == <<collector_pc, previous_cycle_problems, current_cycle_problems,
                    events, event_index, fetch_failed, handled, first_tick>>
request_vars == <<subscribe_returned, unresolved_events, sink_events, subscribing>>
vars == <<source_vars, mirror_vars, notification_sink_to_trigger, now,
          actualizer_vars, collector_vars, cast_diff, request_vars>>

\* ------------------------------------------------------- small helpers
\* a request that has not returned anything (not called yet), or that raised
NOTHING_RETURNED == -1
RAISED == -2

EmptyFn == [x \in {} |-> NULL]

HostGroupsDiffEmpty ==
    [new_host_groups |-> {}, enabled_host_groups |-> {}, obsolete_host_groups |-> {}]

TriggersDiffEmpty ==
    [appeared_triggers |-> {}, enabled_triggers |-> {}, obsolete_triggers |-> {}]

AppliedEmpty ==
    [inserted_host_groups |-> {}, enabled_host_groups |-> {}, disabled_host_groups |-> {},
     inserted_hosts |-> {}, inserted_host_to_host_groups |-> {},
     inserted_triggers |-> {}, enabled_triggers |-> {}, disabled_triggers |-> {}]

\* ------------------------------------------------------- Snapshot Source
\* ZabbixConnector.get_host_groups: the groups of the hosts host.get returns
get_host_groups == {l[2] : l \in zabbix_hosts}

\* ZabbixController.get_host_group_id_to_hosts, as the set of (host, group) pairs
get_host_group_id_to_hosts == zabbix_hosts

get_triggers == zabbix_triggers

\* ------------------------------------------------------- Persisted Mirror
\* a select of the active rows only: WHERE id > 0 AND disabled_at IS NULL
select_active(table) ==
    [id \in {i \in DOMAIN table : i > 0 /\ table[i] = NULL} |-> table[id]]

\* DatabaseGateway.select: WHERE id > 0, no filter on disabled_at
select(table) == [id \in {i \in DOMAIN table : i > 0} |-> table[id]]

\* DatabaseGateway.insert of entities with disabled_at = None
insert(table, ids) == [id \in DOMAIN table \cup ids |-> IF id \in ids THEN NULL ELSE table[id]]

enable_host_groups_skipped(table, ids) == table

enable_host_groups(table, ids) ==
    [id \in DOMAIN table |-> IF id \in ids THEN NULL ELSE table[id]]

\* a hard delete of the obsolete rows
disable_host_groups_deleting(table, ids, time) ==
    [id \in DOMAIN table \ ids |-> table[id]]

disable_host_groups(table, ids, time) ==
    [id \in DOMAIN table |-> IF id \in ids THEN time ELSE table[id]]

\* DatabaseActualizer._get_host_group_id_to_hosts, as the set of (host, group) pairs
saved_host_group_id_to_hosts(groups, links) ==
    {l \in links : l[2] \in DOMAIN select(groups)}

\* ------------------------------------------------------- diffs
\* the diff without the subtraction of the disabled ids from the obsolete ones
cast_host_groups_diff_redisable(actual_host_group_ids, saved_host_groups) ==
    LET saved_host_group_ids == DOMAIN saved_host_groups
        disabled_host_group_ids ==
            {id \in saved_host_group_ids : saved_host_groups[id] # NULL}
    IN  [new_host_groups |-> actual_host_group_ids \ saved_host_group_ids,
         enabled_host_groups |-> disabled_host_group_ids \cap actual_host_group_ids,
         obsolete_host_groups |-> saved_host_group_ids \ actual_host_group_ids]

cast_host_groups_diff(actual_host_group_ids, saved_host_groups) ==
    LET saved_host_group_ids == DOMAIN saved_host_groups
        disabled_host_group_ids ==
            {id \in saved_host_group_ids : saved_host_groups[id] # NULL}
    IN  [new_host_groups |-> actual_host_group_ids \ saved_host_group_ids,
         enabled_host_groups |-> disabled_host_group_ids \cap actual_host_group_ids,
         obsolete_host_groups |->
             (saved_host_group_ids \ disabled_host_group_ids) \ actual_host_group_ids]

\* the diff with every actual trigger taken as new
cast_triggers_diff_all_new(actual_trigger_ids, saved_triggers) ==
    LET saved_trigger_ids == DOMAIN saved_triggers
        saved_disabled_trigger_ids ==
            {id \in saved_trigger_ids : saved_triggers[id] # NULL}
    IN  [appeared_triggers |-> actual_trigger_ids,
         enabled_triggers |-> saved_disabled_trigger_ids \cap actual_trigger_ids,
         obsolete_triggers |->
             (saved_trigger_ids \ saved_disabled_trigger_ids) \ actual_trigger_ids]

cast_triggers_diff(actual_trigger_ids, saved_triggers) ==
    LET saved_trigger_ids == DOMAIN saved_triggers
        saved_disabled_trigger_ids ==
            {id \in saved_trigger_ids : saved_triggers[id] # NULL}
    IN  [appeared_triggers |-> actual_trigger_ids \ saved_trigger_ids,
         enabled_triggers |-> saved_disabled_trigger_ids \cap actual_trigger_ids,
         obsolete_triggers |->
             (saved_trigger_ids \ saved_disabled_trigger_ids) \ actual_trigger_ids]

\* a diff scoped per host: a host saved under any group is in no new host source
cast_hosts_diff_per_host(actual_pairs, saved_pairs) ==
    {s \in actual_pairs : s[1] \notin {l[1] : l \in saved_pairs}}

\* new_host_sources of _cast_hosts_diff: per group key, actual host ids minus saved ones
cast_hosts_diff(actual_pairs, saved_pairs) ==
    {s \in actual_pairs :
        LET saved_host_ids == {l[1] : l \in {x \in saved_pairs : x[2] = s[2]}}
        IN  s[1] \notin saved_host_ids}

\* ------------------------------------------------------- DatabaseActualizer
\* steps of one tick of _actualize_monitoring_system_structure, in program order
STEP_GET_HOST_GROUPS == 1
STEP_SELECT_HOST_GROUPS == 2
STEP_INSERT_HOST_GROUPS == 3
STEP_ENABLE_HOST_GROUPS == 4
STEP_DISABLE_HOST_GROUPS == 5
STEP_GET_HOSTS == 6
STEP_SELECT_HOSTS == 7
STEP_INSERT_HOST_SOURCES == 8
STEP_GET_TRIGGERS == 9
STEP_SELECT_TRIGGERS == 10
STEP_INSERT_TRIGGERS == 11
Steps == STEP_GET_HOST_GROUPS..STEP_INSERT_TRIGGERS
NO_FAILURE == 0

\* the call of step k returned normally when the injected failure is fail_at
Passed(fail_at, k) == fail_at = NO_FAILURE \/ fail_at > k

RECURSIVE insert_host_sources(_, _, _, _)

\* a synchronisation that replaces the saved hosts and links by the sources
insert_host_sources_replacing(host_sources, hosts, links, db_error) ==
    {[host |-> {s[1] : s \in host_sources}, host_to_host_group |-> host_sources,
      ok |-> ~db_error]}

\* _insert_host_sources: the sources are inserted one after another in the
\* unspecified order of the list, a Host row and then a HostToHostGroup row each;
\* inserting a Host whose id is already a row violates the primary key and
\* raises, as does a database error (db_error) at any of the inserts.  The
\* result is the set of possible outcomes.
insert_host_sources(host_sources, hosts, links, db_error) ==
    IF host_sources = {}
    THEN {[host |-> hosts, host_to_host_group |-> links, ok |-> TRUE]}
    ELSE UNION {
        (IF db_error
         THEN {[host |-> hosts, host_to_host_group |-> links, ok |-> FALSE]}
              \cup (IF s[1] \notin hosts
                    THEN {[host |-> hosts \cup {s[1]}, host_to_host_group |-> links,
                           ok |-> FALSE]}
                    ELSE {})
         ELSE {})
        \cup
        (IF s[1] \in hosts
         THEN {[host |-> hosts, host_to_host_group |-> links, ok |-> FALSE]}
         ELSE insert_host_sources(host_sources \ {s}, hosts \cup {s[1]},
                                  links \cup {s}, db_error))
        : s \in host_sources}

\* the three calls in one transaction: a call that raises undoes the others
actualize_host_groups_transactional(table, host_groups_diff, fail_at, time) ==
    IF fail_at \in STEP_INSERT_HOST_GROUPS..STEP_DISABLE_HOST_GROUPS
    THEN table
    ELSE LET hg1 == IF Passed(fail_at, STEP_INSERT_HOST_GROUPS)
                    THEN insert(table, host_groups_diff.new_host_groups) ELSE table
             hg2 == IF Passed(fail_at, STEP_ENABLE_HOST_GROUPS)
                    THEN enable_host_groups(hg1, host_groups_diff.enabled_host_groups)
                    ELSE hg1
             hg3 == IF Passed(fail_at, STEP_DISABLE_HOST_GROUPS)
                    THEN disable_host_groups(hg2, host_groups_diff.obsolete_host_groups,
                                             time)
                    ELSE hg2
         IN  hg3

\* the three calls in the order disable, enable, insert
actualize_host_groups_disable_first(table, host_groups_diff, fail_at, time) ==
    LET hg1 == IF Passed(fail_at, STEP_INSERT_HOST_GROUPS)
               THEN disable_host_groups(table, host_groups_diff.obsolete_host_groups, time)
               ELSE table
        hg2 == IF Passed(fail_at, STEP_ENABLE_HOST_GROUPS)
               THEN enable_host_groups(hg1, host_groups_diff.enabled_host_groups) ELSE hg1
        hg3 == IF Passed(fail_at, STEP_DISABLE_HOST_GROUPS)
               THEN insert(hg2, host_groups_diff.new_host_groups) ELSE hg2
    IN  hg3

\* the three bulk calls of _actualize_host_groups on one diff, in program
\* order: insert, enable_host_groups, disable_host_groups; the call that raises
\* and the calls after it change nothing
actualize_host_groups(table, host_groups_diff, fail_at, time) ==
    LET hg1 == IF Passed(fail_at, STEP_INSERT_HOST_GROUPS)
               THEN insert(table, host_groups_diff.new_host_groups) ELSE table
        hg2 == IF Passed(fail_at, STEP_ENABLE_HOST_GROUPS)
               THEN enable_host_groups(hg1, host_groups_diff.enabled_host_groups) ELSE hg1
        hg3 == IF Passed(fail_at, STEP_DISABLE_HOST_GROUPS)
               THEN disable_host_groups(hg2, host_groups_diff.obsolete_host_groups, time)
               ELSE hg2
    IN  hg3

\* what _actualize_triggers applies of a TriggersDiff
apply_triggers_diff(table, triggers_diff, time) ==
    insert(table, triggers_diff.appeared_triggers)

\* a tick whose exception is not caught ends the loop
actualizer_after_tick_uncaught(raised) == IF raised THEN "crashed" ELSE "sleep"

\* the try/except of the tick: where the loop continues after a tick
actualizer_after_tick(raised) == "sleep"

ActualizeTick ==
    /\ actualizer_pc = "tick"
    /\ \E fail_at \in {NO_FAILURE} \cup Steps :
        LET hg_diff == cast_host_groups_diff(get_host_groups, select(host_group))
            hg3 == actualize_host_groups(host_group, hg_diff, fail_at, now)
            hosts_read == Passed(fail_at, STEP_SELECT_HOSTS)
            new_host_sources ==
                IF hosts_read
                THEN cast_hosts_diff(get_host_group_id_to_hosts,
                                     saved_host_group_id_to_hosts(hg3, host_to_host_group))
                ELSE {}
            outcomes ==
                IF hosts_read
                THEN insert_host_sources(new_host_sources, host, host_to_host_group,
                                         fail_at = STEP_INSERT_HOST_SOURCES)
                ELSE {[host |-> host, host_to_host_group |-> host_to_host_group,
                       ok |-> FALSE]}
        IN  \E out \in outcomes :
            LET triggers_read == out.ok /\ Passed(fail_at, STEP_SELECT_TRIGGERS)
                tr_diff == IF triggers_read
                           THEN cast_triggers_diff(get_triggers, select(trigger))
                           ELSE TriggersDiffEmpty
                \* Trigger.host_id is a foreign key to Host.id
                fk_ok == \A t \in tr_diff.appeared_triggers : TriggerHost(t) \in out.host
                triggers_applied ==
                    triggers_read /\ Passed(fail_at, STEP_INSERT_TRIGGERS) /\ fk_ok
                tr1 == IF triggers_applied
                       THEN apply_triggers_diff(trigger, tr_diff, now) ELSE trigger
                raised_at ==
                    IF fail_at \in STEP_GET_HOST_GROUPS..STEP_SELECT_HOSTS THEN fail_at
                    ELSE IF ~out.ok THEN STEP_INSERT_HOST_SOURCES
                    ELSE IF fail_at \in {STEP_GET_TRIGGERS, STEP_SELECT_TRIGGERS}
                         THEN fail_at
                    ELSE IF ~triggers_applied THEN STEP_INSERT_TRIGGERS
                    ELSE NO_FAILURE
            IN  /\ host_group' = hg3
                /\ host' = out.host
                /\ host_to_host_group' = out.host_to_host_group
                /\ trigger' = tr1
                /\ failed_step' = raised_at
                /\ applied' =
                       [inserted_host_groups |-> DOMAIN hg3 \ DOMAIN host_group,
                        enabled_host_groups |->
                            IF Passed(fail_at, STEP_ENABLE_HOST_GROUPS)
                            THEN hg_diff.enabled_host_groups ELSE {},
                        disabled_host_groups |->
                            IF Passed(fail_at, STEP_DISABLE_HOST_GROUPS)
                            THEN hg_diff.obsolete_host_groups ELSE {},
                        inserted_hosts |-> out.host \ host,
                        inserted_host_to_host_groups |->
                            out.host_to_host_group \ host_to_host_group,
                        inserted_triggers |-> DOMAIN tr1 \ DOMAIN trigger,
                        enabled_triggers |->
                            {t \in DOMAIN trigger : trigger[t] # NULL /\ tr1[t] = NULL},
                        disabled_triggers |->
                            {t \in DOMAIN trigger : trigger[t] = NULL /\ tr1[t] # NULL}]
                /\ settled' = (raised_at = NO_FAILURE)
                /\ actualizer_pc' = actualizer_after_tick(raised_at # NO_FAILURE)
    /\ UNCHANGED <<source_vars, notification_sink_to_trigger, now, collector_vars,
                   cast_diff, request_vars>>

\* asyncio.sleep(actualization_interval_sec): time passes (the clock saturates at MaxTime)
ActualizerSleep ==
    /\ actualizer_pc = "sleep"
    /\ actualizer_pc' = "tick"
    /\ now' = IF now < MaxTime THEN now + 1 ELSE now
    /\ failed_step' = NO_FAILURE
    /\ applied' = AppliedEmpty
    /\ UNCHANGED <<source_vars, mirror_vars, notification_sink_to_trigger,
                   settled, collector_vars, cast_diff, request_vars>>


\* ------------------------------------------------------- problem snapshots
\* what ZabbixConnector.get_problems can return: a set of problems with
\* distinct external ids, as a function external_id -> opdata
Snapshots == UNION {[d -> Opdata] : d \in SUBSET ProblemIds}

\* the sequences that list the elements of a set once each, in any order
RECURSIVE Perms(_)
Perms(S) ==
    IF S = {} THEN {<<>>}
    ELSE UNION {{<<x>> \o rest : rest \in Perms(S \ {x})} : x \in S}

\* external ids of every problem raised, whether or not it was open before
construct_raised_problems_all_open(current_cycle, previous_cycle) ==
    DOMAIN current_cycle

\* external ids of the problems _construct_raised_problems returns (records of
\* the current cycle)
construct_raised_problems(current_cycle, previous_cycle) ==
    LET previous_problem_external_ids == DOMAIN previous_cycle
        current_problem_external_ids == DOMAIN current_cycle
        raised_problem_external_ids ==
            current_problem_external_ids \ previous_problem_external_ids
    IN  {p \in DOMAIN current_cycle : p \in raised_problem_external_ids}

\* a comparison of whole records: a problem whose content changed counts as gone
construct_resolved_problems_by_content(current_cycle, previous_cycle) ==
    {p \in DOMAIN previous_cycle :
        p \notin DOMAIN current_cycle \/ current_cycle[p] # previous_cycle[p]}

\* external ids of the problems _construct_resolved_problems returns (records
\* of the previous cycle)
construct_resolved_problems(current_cycle, previous_cycle) ==
    LET previous_problem_external_ids == DOMAIN previous_cycle
        current_problem_external_ids == DOMAIN current_cycle
        resolved_problem_external_ids ==
            previous_problem_external_ids \ current_problem_external_ids
    IN  {p \in DOMAIN previous_cycle : p \in resolved_problem_external_ids}

MonitoringEvent(external_id, problem_opdata, resolved) ==
    [external_id |-> external_id, trigger_id |-> ProblemTrigger(external_id),
     opdata |-> problem_opdata, resolved_at |-> resolved]

\* ------------------------------------------------------- Controller fan-out
get_notification_sinks_by_trigger_id(trigger_id) ==
    {l[1] : l \in {x \in notification_sink_to_trigger : x[2] = trigger_id}}

\* what one notifier call can meet: the message is sent, the send raises, or
\* the time zone lookup or the rendering before the send raises
NotifyOutcomes == {"sent", "send_failed", "render_failed"}

\* TelegramController.notify_event_raised catches a failing send,
\* notify_event_resolved does not; neither catches what precedes the send
notify_raises(resolved_at, outcome) ==
    \/ outcome = "render_failed"
    \/ outcome = "send_failed" /\ resolved_at # NULL

HandledNothing == <<>>

\* the notifier operation _handle_monitoring_event chooses for an event
notifier_operation(event) ==
    IF event.resolved_at = NULL THEN "notify_event_raised" ELSE "notify_event_resolved"

\* a handler that fetches the message components again for every recipient
handle_monitoring_event_refetching(event, sinks, db_error, outcomes) ==
    LET raising == {i \in 1..Len(sinks) : notify_raises(event.resolved_at, outcomes[sinks[i]])}
        first_raising == IF raising = {} THEN 0
                         ELSE CHOOSE i \in raising : \A j \in raising : i <= j
        called == IF first_raising = 0 THEN sinks ELSE SubSeq(sinks, 1, first_raising)
    IN  IF db_error = "sinks"
        THEN [event |-> event, recipients |-> <<>>, components_fetched |-> 0,
              operation |-> "none", invoked |-> <<>>, raised_at |-> 0,
              raised_in |-> "sinks", failed |-> TRUE]
        ELSE IF sinks = <<>>
        THEN [event |-> event, recipients |-> sinks, components_fetched |-> 0,
              operation |-> "none", invoked |-> <<>>, raised_at |-> 0,
              raised_in |-> "none", failed |-> FALSE]
        ELSE IF db_error = "components"
        THEN [event |-> event, recipients |-> sinks, components_fetched |-> 1,
              operation |-> "none", invoked |-> <<>>, raised_at |-> 0,
              raised_in |-> "components", failed |-> TRUE]
        ELSE [event |-> event, recipients |-> sinks,
              components_fetched |-> Len(called),
              operation |-> notifier_operation(event),
              invoked |-> called,
              raised_at |-> first_raising,
              raised_in |-> IF first_raising = 0 THEN "none" ELSE "notifier",
              failed |-> first_raising # 0]

\* a handler that fetches the message components before it looks at the sinks
handle_monitoring_event_eager(event, sinks, db_error, outcomes) ==
    LET raising == {i \in 1..Len(sinks) : notify_raises(event.resolved_at, outcomes[sinks[i]])}
        first_raising == IF raising = {} THEN 0
                         ELSE CHOOSE i \in raising : \A j \in raising : i <= j
    IN  IF db_error = "sinks"
        THEN [event |-> event, recipients |-> <<>>, components_fetched |-> 0,
              operation |-> "none", invoked |-> <<>>, raised_at |-> 0,
              raised_in |-> "sinks", failed |-> TRUE]
        ELSE IF db_error = "components"
        THEN [event |-> event, recipients |-> sinks, components_fetched |-> 1,
              operation |-> "none", invoked |-> <<>>, raised_at |-> 0,
              raised_in |-> "components", failed |-> TRUE]
        ELSE [event |-> event, recipients |-> sinks, components_fetched |-> 1,
              operation |-> IF sinks = <<>> THEN "none" ELSE notifier_operation(event),
              invoked |-> IF first_raising = 0 THEN sinks
                          ELSE SubSeq(sinks, 1, first_raising),
              raised_at |-> first_raising,
              raised_in |-> IF first_raising = 0 THEN "none" ELSE "notifier",
              failed |-> first_raising # 0]

\* Controller._handle_monitoring_event under the try/except of
\* handle_monitoring_events.  sinks: the recipients in the order the query
\* returned them; db_error: "sinks" or "components" when that lookup raises;
\* outcomes: what the notifier call for each sink meets.  The result records
\* the recipients found, the number of message-component lookups made, the
\* notifier operation used, the recipients it was called for (in order), the
\* position of the call that raised (0 if none), and where the exception that
\* handle_monitoring_events caught came from.
handle_monitoring_event(event, sinks, db_error, outcomes) ==
    LET raising == {i \in 1..Len(sinks) : notify_raises(event.resolved_at, outcomes[sinks[i]])}
        first_raising == IF raising = {} THEN 0
                         ELSE CHOOSE i \in raising : \A j \in raising : i <= j
    IN  IF db_error = "sinks"
        THEN [event |-> event, recipients |-> <<>>, components_fetched |-> 0,
              operation |-> "none", invoked |-> <<>>, raised_at |-> 0,
              raised_in |-> "sinks", failed |-> TRUE]
        ELSE IF sinks = <<>>
        THEN [event |-> event, recipients |-> sinks, components_fetched |-> 0,
              operation |-> "none", invoked |-> <<>>, raised_at |-> 0,
              raised_in |-> "none", failed |-> FALSE]
        ELSE IF db_error = "components"
        THEN [event |-> event, recipients |-> sinks, components_fetched |-> 1,
              operation |-> "none", invoked |-> <<>>, raised_at |-> 0,
              raised_in |-> "components", failed |-> TRUE]
        ELSE [event |-> event, recipients |-> sinks, components_fetched |-> 1,
              operation |-> notifier_operation(event),
              invoked |-> IF first_raising = 0 THEN sinks
                          ELSE SubSeq(sinks, 1, first_raising),
              raised_at |-> first_raising,
              raised_in |-> IF first_raising = 0 THEN "none" ELSE "notifier",
              failed |-> first_raising # 0]

\* ------------------------------------------------------- ZabbixController
\* a loop that starts with no fetch: the baseline is empty
CollectorBaselineEmpty ==
    /\ collector_pc = "init"
    /\ \E snapshot \in Snapshots :
           /\ current_cycle_problems' = snapshot
           /\ previous_cycle_problems' = EmptyFn
    /\ collector_pc' = "fetch"
    /\ UNCHANGED <<source_vars, mirror_vars, notification_sink_to_trigger, now,
                   actualizer_vars, first_tick, events, event_index, fetch_failed,
                   handled, cast_diff, request_vars>>

\* the first get_problems of _collect_monitoring_events, before the loop
CollectorBaseline ==
    /\ collector_pc = "init"
    /\ \E snapshot \in Snapshots :
           /\ current_cycle_problems' = snapshot
           /\ previous_cycle_problems' = snapshot
    /\ collector_pc' = "fetch"
    /\ UNCHANGED <<source_vars, mirror_vars, notification_sink_to_trigger, now,
                   actualizer_vars, first_tick, events, event_index, fetch_failed, handled,
                   cast_diff, request_vars>>

\* the first get_problems raises outside the try: the task ends
CollectorBaselineFailed ==
    /\ collector_pc = "init"
    /\ collector_pc' = "crashed"
    /\ fetch_failed' = TRUE
    /\ UNCHANGED <<source_vars, mirror_vars, notification_sink_to_trigger, now,
                   actualizer_vars, first_tick, previous_cycle_problems, current_cycle_problems,
                   events, event_index, handled, cast_diff, request_vars>>

\* a tick that appends the resolved events before the raised ones
CollectorFetchResolvedFirst ==
    /\ collector_pc = "fetch"
    /\ \E snapshot \in Snapshots :
        LET raised_problems ==
                construct_raised_problems(snapshot, previous_cycle_problems)
            resolved_problems ==
                construct_resolved_problems(snapshot, previous_cycle_problems)
        IN  /\ current_cycle_problems' = snapshot
            /\ \E raised \in Perms(raised_problems), resolved \in Perms(resolved_problems) :
                   events' =
                       [i \in 1..Len(resolved) |->
                           MonitoringEvent(resolved[i],
                                           previous_cycle_problems[resolved[i]], now)]
                       \o
                       [i \in 1..Len(raised) |->
                           MonitoringEvent(raised[i], snapshot[raised[i]], NULL)]
    /\ event_index' = 0
    /\ fetch_failed' = FALSE
    /\ handled' = HandledNothing
    /\ collector_pc' = "dispatch"
    /\ UNCHANGED <<source_vars, mirror_vars, notification_sink_to_trigger, now,
                   actualizer_vars, first_tick, previous_cycle_problems, cast_diff, request_vars>>

\* a tick that appends to the list of the tick before (no events.clear())
CollectorFetchNoClear ==
    /\ collector_pc = "fetch"
    /\ \E snapshot \in Snapshots :
        LET raised_problems ==
                construct_raised_problems(snapshot, previous_cycle_problems)
            resolved_problems ==
                construct_resolved_problems(snapshot, previous_cycle_problems)
        IN  /\ current_cycle_problems' = snapshot
            /\ \E raised \in Perms(raised_problems), resolved \in Perms(resolved_problems) :
                   events' = events \o
                       [i \in 1..Len(raised) |->
                           MonitoringEvent(raised[i], snapshot[raised[i]], NULL)]
                       \o
                       [i \in 1..Len(resolved) |->
                           MonitoringEvent(resolved[i],
                                           previous_cycle_problems[resolved[i]], now)]
    /\ event_index' = 0
    /\ fetch_failed' = FALSE
    /\ handled' = HandledNothing
    /\ collector_pc' = "dispatch"
    /\ UNCHANGED <<source_vars, mirror_vars, notification_sink_to_trigger, now,
                   actualizer_vars, first_tick, previous_cycle_problems, cast_diff, request_vars>>

\* the head of a tick: events.clear(), get_problems, the two diffs, the events
CollectorFetch ==
    /\ collector_pc = "fetch"
    /\ \E snapshot \in Snapshots :
        LET raised_problems ==
                construct_raised_problems(snapshot, previous_cycle_problems)
            resolved_problems ==
                construct_resolved_problems(snapshot, previous_cycle_problems)
        IN  /\ current_cycle_problems' = snapshot
            /\ \E raised \in Perms(raised_problems), resolved \in Perms(resolved_problems) :
                   events' =
                       [i \in 1..Len(raised) |->
                           MonitoringEvent(raised[i], snapshot[raised[i]], NULL)]
                       \o
                       [i \in 1..Len(resolved) |->
                           MonitoringEvent(resolved[i],
                                           previous_cycle_problems[resolved[i]], now)]
    /\ event_index' = 0
    /\ fetch_failed' = FALSE
    /\ handled' = HandledNothing
    /\ collector_pc' = "dispatch"
    /\ UNCHANGED <<source_vars, mirror_vars, notification_sink_to_trigger, now,
                   actualizer_vars, first_tick, previous_cycle_problems, cast_diff, request_vars>>

\* get_problems raises in a tick and the baseline is replaced all the same
CollectorFetchFailedAdvancing ==
    /\ collector_pc = "fetch"
    /\ events' = <<>>
    /\ event_index' = 0
    /\ fetch_failed' = TRUE
    /\ handled' = HandledNothing
    /\ previous_cycle_problems' = EmptyFn
    /\ collector_pc' = "sleep"
    /\ UNCHANGED <<source_vars, mirror_vars, notification_sink_to_trigger, now,
                   actualizer_vars, first_tick, current_cycle_problems, cast_diff, request_vars>>

\* get_problems raises in a tick: the except branch, then the sleep
CollectorFetchFailed ==
    /\ collector_pc = "fetch"
    /\ events' = <<>>
    /\ event_index' = 0
    /\ fetch_failed' = TRUE
    /\ handled' = HandledNothing
    /\ collector_pc' = "sleep"
    /\ UNCHANGED <<source_vars, mirror_vars, notification_sink_to_trigger, now,
                   actualizer_vars, first_tick, previous_cycle_problems, current_cycle_problems,
                   cast_diff, request_vars>>

\* an iteration with no try/except: what _handle_monitoring_event raises leaves
\* handle_monitoring_events and reaches the except branch of the detection loop
HandleMonitoringEventUncaught ==
    /\ collector_pc = "dispatch"
    /\ event_index < Len(events)
    /\ LET event == events[event_index + 1]
       IN  \E db_error \in {"none", "sinks", "components"},
              sinks \in Perms(get_notification_sinks_by_trigger_id(event.trigger_id)),
              outcomes \in [get_notification_sinks_by_trigger_id(event.trigger_id)
                            -> NotifyOutcomes] :
               LET result == handle_monitoring_event(event, sinks, db_error, outcomes)
               IN  /\ handled' = result
                   /\ collector_pc' = IF result.failed THEN "sleep" ELSE "dispatch"
    /\ event_index' = event_index + 1
    /\ UNCHANGED <<source_vars, mirror_vars, notification_sink_to_trigger, now,
                   actualizer_vars, first_tick, previous_cycle_problems,
                   current_cycle_problems, events, fetch_failed, cast_diff, request_vars>>

\* one iteration of the loop of Controller.handle_monitoring_events
HandleMonitoringEvent ==
    /\ collector_pc = "dispatch"
    /\ event_index < Len(events)
    /\ LET event == events[event_index + 1]
       IN  \E db_error \in {"none", "sinks", "components"},
              sinks \in Perms(get_notification_sinks_by_trigger_id(event.trigger_id)),
              outcomes \in [get_notification_sinks_by_trigger_id(event.trigger_id)
                            -> NotifyOutcomes] :
               handled' = handle_monitoring_event(event, sinks, db_error, outcomes)
    /\ event_index' = event_index + 1
    /\ UNCHANGED <<source_vars, mirror_vars, notification_sink_to_trigger, now,
                   actualizer_vars, first_tick, collector_pc, previous_cycle_problems,
                   current_cycle_problems, events, fetch_failed, cast_diff, request_vars>>

\* a loop that keeps the old baseline when the fan-out of the last event failed,
\* so that the next tick emits the transitions again
CollectorAdvanceUnlessFailed ==
    /\ collector_pc = "dispatch"
    /\ event_index = Len(events)
    /\ previous_cycle_problems' =
           IF handled # HandledNothing /\ handled.failed
           THEN previous_cycle_problems ELSE current_cycle_problems
    /\ collector_pc' = "sleep"
    /\ UNCHANGED <<source_vars, mirror_vars, notification_sink_to_trigger, now,
                   actualizer_vars, first_tick, current_cycle_problems, events,
                   event_index, fetch_failed, handled, cast_diff, request_vars>>

\* handle_monitoring_events returned: previous_cycle_problems = current_cycle_problems
CollectorAdvance ==
    /\ collector_pc = "dispatch"
    /\ event_index = Len(events)
    /\ previous_cycle_problems' = current_cycle_problems
    /\ collector_pc' = "sleep"
    /\ UNCHANGED <<source_vars, mirror_vars, notification_sink_to_trigger, now,
                   actualizer_vars, first_tick, current_cycle_problems, events, event_index,
                   fetch_failed, handled, cast_diff, request_vars>>

\* a tick started by a timer: the interval elapses during the dispatch of the
\* tick in flight as well as during the sleep
CollectorSleepTimer ==
    /\ collector_pc \in {"sleep", "dispatch"}
    /\ collector_pc' = "fetch"
    /\ fetch_failed' = FALSE
    /\ first_tick' = FALSE
    /\ UNCHANGED <<source_vars, mirror_vars, notification_sink_to_trigger, now,
                   actualizer_vars, previous_cycle_problems, current_cycle_problems,
                   events, event_index, handled, cast_diff, request_vars>>

\* asyncio.sleep(collection_interval_sec)
CollectorSleep ==
    /\ collector_pc = "sleep"
    /\ collector_pc' = "fetch"
    /\ fetch_failed' = FALSE
    /\ first_tick' = FALSE
    /\ UNCHANGED <<source_vars, mirror_vars, notification_sink_to_trigger, now,
                   actualizer_vars, previous_cycle_problems, current_cycle_problems,
                   events, event_index, handled, cast_diff, request_vars>>

\* ------------------------------------------------------- on-demand requests
\* events built like the raised events of the detection loop: not resolved
get_unresolved_events_open(problems, time) ==
    {MonitoringEvent(p, problems[p], NULL) : p \in DOMAIN problems}

\* the events ZabbixController.get_unresolved_events builds from the problems
\* its own get_problems call returned: one per open problem, resolved_at set
\* to the time of the request (the order of the list is not modelled)
get_unresolved_events(problems, time) ==
    {MonitoringEvent(p, problems[p], time) : p \in DOMAIN problems}

\* a request that stores what it fetched as the baseline of the detection loop
GetUnresolvedEventsSharingBaseline ==
    /\ \E snapshot \in Snapshots :
           /\ unresolved_events' = get_unresolved_events(snapshot, now)
           /\ previous_cycle_problems' = snapshot
    /\ UNCHANGED <<source_vars, mirror_vars, notification_sink_to_trigger, now,
                   actualizer_vars, collector_pc, current_cycle_problems, events,
                   event_index, fetch_failed, handled, first_tick, cast_diff,
                   subscribe_returned, sink_events, subscribing>>

\* ZabbixController.get_unresolved_events, called at any moment
GetUnresolvedEvents ==
    /\ \E snapshot \in Snapshots :
           unresolved_events' = get_unresolved_events(snapshot, now)
    /\ UNCHANGED <<source_vars, mirror_vars, notification_sink_to_trigger, now,
                   actualizer_vars, collector_vars, cast_diff, subscribe_returned,
                   sink_events, subscribing>>

\* Controller.get_unresolved_events(notification_sink): the events of the
\* monitoring system are put in a dict keyed by trigger_id, which keeps one
\* event per trigger id (the last of the list, whose order is that of a set:
\* any of them), and the event of each trigger the sink is subscribed to is
\* returned
ControllerGetUnresolvedEvents ==
    /\ \E notification_sink \in SinkIds, snapshot \in Snapshots :
        LET fetched == get_unresolved_events(snapshot, now)
            notification_sink_triggers ==
                {l[2] : l \in {x \in notification_sink_to_trigger :
                                  x[1] = notification_sink}}
        IN  \E trigger_id_to_event \in [{e.trigger_id : e \in fetched} -> fetched] :
                /\ \A t \in DOMAIN trigger_id_to_event :
                       trigger_id_to_event[t].trigger_id = t
                /\ unresolved_events' = fetched
                /\ sink_events' =
                       [notification_sink |-> notification_sink,
                        events |-> {trigger_id_to_event[t] :
                                       t \in notification_sink_triggers
                                              \cap DOMAIN trigger_id_to_event}]
    /\ UNCHANGED <<source_vars, mirror_vars, notification_sink_to_trigger, now,
                   actualizer_vars, collector_vars, cast_diff, subscribe_returned,
                   subscribing>>

\* ------------------------------------------------------- subscriptions
\* Controller.subscribe_to_monitoring_system_triggers; the link's trigger_id is
\* a foreign key to Trigger.id, so the bulk insert raises when a trigger of
\* the source is not a row of the mirror, and the call returns nothing
SubscribeToMonitoringSystemTriggers ==
    /\ \E sink \in SinkIds :
        LET saved_triggers ==
                {l[2] : l \in {x \in notification_sink_to_trigger : x[1] = sink}}
            notification_sink_to_triggers ==
                {<<sink, t>> : t \in get_triggers \ saved_triggers}
            inserted == \A l \in notification_sink_to_triggers : l[2] \in DOMAIN trigger
        IN  /\ notification_sink_to_trigger' =
                   IF inserted
                   THEN notification_sink_to_trigger \cup notification_sink_to_triggers
                   ELSE notification_sink_to_trigger
            /\ subscribe_returned' =
                   IF inserted THEN Cardinality(notification_sink_to_triggers)
                   ELSE RAISED
    /\ UNCHANGED <<source_vars, mirror_vars, now, actualizer_vars, collector_vars,
                   cast_diff, unresolved_events, sink_events, subscribing>>

\* ---- subscribe_to_monitoring_system_triggers step by step: the call awaits
\* its reads and then its insert, and other coroutines run in between
\* the sequence without its i-th element
RemoveAt(seq, i) == [j \in 1..(Len(seq) - 1) |-> IF j < i THEN seq[j] ELSE seq[j + 1]]

\* the reads of the call and the list of links it builds from them
SubscribeReadTriggers ==
    /\ Len(subscribing) < MaxCall
    /\ \E sink \in SinkIds :
        LET saved_triggers ==
                {l[2] : l \in {x \in notification_sink_to_trigger : x[1] = sink}}
        IN  subscribing' =
                Append(subscribing,
                       [notification_sink |-> sink,
                        notification_sink_to_triggers |->
                            {<<sink, t>> : t \in get_triggers \ saved_triggers}])
    /\ UNCHANGED <<source_vars, mirror_vars, notification_sink_to_trigger, now,
                   actualizer_vars, collector_vars, cast_diff, subscribe_returned,
                   unresolved_events, sink_events>>

\* an insert with no foreign key from the link to the trigger table
SubscribeInsertUnchecked ==
    /\ \E i \in 1..Len(subscribing) :
        LET notification_sink_to_triggers == subscribing[i].notification_sink_to_triggers
            inserted == notification_sink_to_triggers \cap notification_sink_to_trigger = {}
        IN  /\ notification_sink_to_trigger' =
                   IF inserted
                   THEN notification_sink_to_trigger \cup notification_sink_to_triggers
                   ELSE notification_sink_to_trigger
            /\ subscribe_returned' =
                   IF inserted THEN Cardinality(notification_sink_to_triggers)
                   ELSE RAISED
            /\ subscribing' = RemoveAt(subscribing, i)
    /\ UNCHANGED <<source_vars, mirror_vars, now, actualizer_vars, collector_vars,
                   cast_diff, unresolved_events, sink_events>>

\* the insert of the list a call built, and its return: the insert raises, and
\* inserts nothing, when a link of the list is already a row (the primary key
\* is the pair) or when its trigger is not a row of the trigger table (the
\* foreign key)
SubscribeInsert ==
    /\ \E i \in 1..Len(subscribing) :
        LET notification_sink_to_triggers == subscribing[i].notification_sink_to_triggers
            inserted ==
                /\ notification_sink_to_triggers \cap notification_sink_to_trigger = {}
                /\ \A l \in notification_sink_to_triggers : l[2] \in DOMAIN trigger
        IN  /\ notification_sink_to_trigger' =
                   IF inserted
                   THEN notification_sink_to_trigger \cup notification_sink_to_triggers
                   ELSE notification_sink_to_trigger
            /\ subscribe_returned' =
                   IF inserted THEN Cardinality(notification_sink_to_triggers)
                   ELSE RAISED
            /\ subscribing' = RemoveAt(subscribing, i)
    /\ UNCHANGED <<source_vars, mirror_vars, now, actualizer_vars, collector_vars,
                   cast_diff, unresolved_events, sink_events>>

\* TelegramController._subscribe_to_trigger: the insert of one link, which
\* raises under the same two constraints
SubscribeToTrigger ==
    /\ \E sink \in SinkIds, trigger_id \in TriggerIds :
        LET inserted ==
                /\ <<sink, trigger_id>> \notin notification_sink_to_trigger
                /\ trigger_id \in DOMAIN trigger
        IN  notification_sink_to_trigger' =
                IF inserted
                THEN notification_sink_to_trigger \cup {<<sink, trigger_id>>}
                ELSE notification_sink_to_trigger
    /\ UNCHANGED <<source_vars, mirror_vars, now, actualizer_vars, collector_vars,
                   cast_diff, request_vars>>

\* a delete with no WHERE clause: the links of every sink are removed
UnsubscribeDeletingAll ==
    /\ \E sink \in SinkIds : notification_sink_to_trigger' = {}
    /\ UNCHANGED <<source_vars, mirror_vars, now, actualizer_vars, collector_vars,
                   cast_diff, request_vars>>

\* Controller.unsubscribe_to_monitoring_system_triggers
UnsubscribeToMonitoringSystemTriggers ==
    /\ \E sink \in SinkIds :
           notification_sink_to_trigger' =
               {l \in notification_sink_to_trigger : l[1] # sink}
    /\ UNCHANGED <<source_vars, mirror_vars, now, actualizer_vars, collector_vars,
                   cast_diff, request_vars>>

\* ------------------------------------------------------- environment
\* a host joins or leaves host group g in the monitoring system
ZabbixChangeHostsOfGroup(g) ==
    /\ \E h \in HostIds :
           zabbix_hosts' = IF <<h, g>> \in zabbix_hosts THEN zabbix_hosts \ {<<h, g>>}
                           ELSE zabbix_hosts \cup {<<h, g>>}
    /\ settled' = FALSE
    /\ UNCHANGED <<zabbix_triggers, mirror_vars,
                   notification_sink_to_trigger, now, actualizer_pc, failed_step,
                   applied, collector_vars, cast_diff, request_vars>>

ZabbixChangeHosts == \E g \in HostGroupIds : ZabbixChangeHostsOfGroup(g)

\* a trigger appears in or vanishes from the monitoring system
ZabbixChangeTriggers ==
    /\ \E t \in TriggerIds :
           zabbix_triggers' = IF t \in zabbix_triggers THEN zabbix_triggers \ {t}
                              ELSE zabbix_triggers \cup {t}
    /\ settled' = FALSE
    /\ UNCHANGED <<zabbix_hosts, mirror_vars,
                   notification_sink_to_trigger, now, actualizer_pc, failed_step,
                   applied, collector_vars, cast_diff, request_vars>>

\* ------------------------------------------------------- specifications
InitSource ==
    /\ zabbix_hosts = {}
    /\ zabbix_triggers = {}

InitMirror ==
    /\ host_group = EmptyFn
    /\ host = {}
    /\ host_to_host_group = {}
    /\ trigger = EmptyFn
    /\ notification_sink_to_trigger = {}

InitActualizer ==
    /\ actualizer_pc = "tick"
    /\ failed_step = NO_FAILURE
    /\ applied = AppliedEmpty
    /\ settled = FALSE

InitCollector ==
    /\ collector_pc = "init"
    /\ previous_cycle_problems = EmptyFn
    /\ current_cycle_problems = EmptyFn
    /\ events = <<>>
    /\ event_index = 0
    /\ fetch_failed = FALSE
    /\ handled = <<>>
    /\ first_tick = TRUE

InitRequests ==
    /\ subscribe_returned = NOTHING_RETURNED
    /\ unresolved_events = {}
    /\ sink_events = <<>>
    /\ subscribing = <<>>

Init ==
    /\ InitSource
    /\ InitMirror
    /\ now = 1
    /\ InitActualizer
    /\ InitCollector
    /\ InitRequests
    /\ cast_diff = <<>>

\* the reconciliation loop alone, with its environment
NextActualizer ==
    \/ ActualizeTick
    \/ ActualizerSleep
    \/ ZabbixChangeHosts
    \/ ZabbixChangeTriggers

SpecActualizer == Init /\ [][NextActualizer]_vars

\* the detection loop and the fan-out, with subscriptions changing, on a mirror
\* that a reconciliation tick has filled from a source of one host group
InitMirrored ==
    /\ zabbix_hosts = {<<h, 1>> : h \in HostIds}
    /\ zabbix_triggers = TriggerIds
    /\ host_group = [g \in {1} |-> NULL]
    /\ host = HostIds
    /\ host_to_host_group = {<<h, 1>> : h \in HostIds}
    /\ trigger = [t \in TriggerIds |-> NULL]
    /\ notification_sink_to_trigger = {}
    /\ now = 1
    /\ actualizer_pc = "tick"
    /\ failed_step = NO_FAILURE
    /\ applied = AppliedEmpty
    /\ settled = TRUE
    /\ InitCollector
    /\ InitRequests
    /\ cast_diff = <<>>

NextCollector ==
    \/ CollectorBaseline
    \/ CollectorBaselineFailed
    \/ CollectorFetch
    \/ CollectorFetchFailed
    \/ HandleMonitoringEvent
    \/ CollectorAdvance
    \/ CollectorSleep
    \/ SubscribeToMonitoringSystemTriggers
    \/ UnsubscribeToMonitoringSystemTriggers

SpecCollector == InitMirrored /\ [][NextCollector]_vars

Next ==
    \/ NextActualizer
    \/ NextCollector
    \/ GetUnresolvedEvents
    \/ ControllerGetUnresolvedEvents
    \/ SubscribeReadTriggers
    \/ SubscribeInsert
    \/ SubscribeToTrigger

Spec == Init /\ [][Next]_vars

\* the reconciliation loop under the fairness of its scheduling, with a source
\* in which only the membership of host group 1 and the triggers change
NextActualizerLoop ==
    \/ ActualizeTick
    \/ ActualizerSleep
    \/ ZabbixChangeHostsOfGroup(1)
    \/ ZabbixChangeTriggers

SpecActualizerFair ==
    /\ Init
    /\ [][NextActualizerLoop]_vars
    /\ WF_vars(ActualizeTick)
    /\ WF_vars(ActualizerSleep)

\* the two loops side by side, as the tasks of one event loop, on a source
\* that does not change
NextLoops ==
    \/ ActualizeTick
    \/ ActualizerSleep
    \/ CollectorBaseline
    \/ CollectorBaselineFailed
    \/ CollectorFetch
    \/ CollectorFetchFailed
    \/ HandleMonitoringEvent
    \/ CollectorAdvance
    \/ CollectorSleep

SpecLoops == InitMirrored /\ [][NextLoops]_vars

\* the two loops under a scheduler that runs every task that stays ready
SpecLoopsFair ==
    /\ InitMirrored
    /\ [][NextLoops]_vars
    /\ WF_vars(ActualizeTick)
    /\ WF_vars(ActualizerSleep)
    /\ WF_vars(CollectorBaseline \/ CollectorBaselineFailed)
    /\ WF_vars(CollectorFetch \/ CollectorFetchFailed)
    /\ WF_vars(HandleMonitoringEvent)
    /\ WF_vars(CollectorAdvance)
    /\ WF_vars(CollectorSleep)

\* the detection loop with on-demand requests arriving at any moment
NextOnDemand ==
    \/ CollectorBaseline
    \/ CollectorBaselineFailed
    \/ CollectorFetch
    \/ CollectorFetchFailed
    \/ HandleMonitoringEvent
    \/ CollectorAdvance
    \/ CollectorSleep
    \/ GetUnresolvedEvents

SpecOnDemand == InitMirrored /\ [][NextOnDemand]_vars

\* subscriptions requested while the source changes and the reconciliation
\* loop mirrors it
NextSubscriptions ==
    \/ ActualizeTick
    \/ ActualizerSleep
    \/ ZabbixChangeHostsOfGroup(1)
    \/ ZabbixChangeTriggers
    \/ SubscribeToMonitoringSystemTriggers
    \/ UnsubscribeToMonitoringSystemTriggers

SpecSubscriptions == Init /\ [][NextSubscriptions]_vars

\* a mirror that a reconciliation tick has filled from a source of one host
\* group that has no trigger yet
InitHostsMirrored ==
    /\ zabbix_hosts = {<<h, 1>> : h \in HostIds}
    /\ zabbix_triggers = {}
    /\ host_group = [g \in {1} |-> NULL]
    /\ host = HostIds
    /\ host_to_host_group = {<<h, 1>> : h \in HostIds}
    /\ trigger = EmptyFn
    /\ notification_sink_to_trigger = {}
    /\ now = 1
    /\ actualizer_pc = "tick"
    /\ failed_step = NO_FAILURE
    /\ applied = AppliedEmpty
    /\ settled = TRUE
    /\ InitCollector
    /\ InitRequests
    /\ cast_diff = <<>>

\* subscribe calls whose steps interleave with the reconciliation loop, while
\* triggers appear in and vanish from the source
NextSubscribeDuringReconcile ==
    \/ ActualizeTick
    \/ ActualizerSleep
    \/ ZabbixChangeTriggers
    \/ SubscribeReadTriggers
    \/ SubscribeInsert

SpecSubscribeDuringReconcile ==
    InitHostsMirrored /\ [][NextSubscribeDuringReconcile]_vars

\* subscribe calls whose steps interleave with each other, with the
\* subscription to one trigger and with unsubscribe, on a synchronized mirror
NextInterleavedSubscribe ==
    \/ SubscribeReadTriggers
    \/ SubscribeInsert
    \/ SubscribeToTrigger
    \/ UnsubscribeToMonitoringSystemTriggers

SpecInterleavedSubscribe == InitMirrored /\ [][NextInterleavedSubscribe]_vars

\* the unresolved events requested by the sinks while subscriptions change
NextUnresolved ==
    \/ SubscribeToMonitoringSystemTriggers
    \/ UnsubscribeToMonitoringSystemTriggers
    \/ ControllerGetUnresolvedEvents

SpecUnresolved == InitMirrored /\ [][NextUnresolved]_vars

\* ---- the diff functions on arbitrary inputs
\* the ids a row of the host-group table can have: those of the source and a
\* row that is not positive, which select leaves out
StoredHostGroupIds == HostGroupIds \cup {NULL}

Tables(ids) == UNION {[d -> 0..MaxTime] : d \in SUBSET ids}

InitDiff ==
    /\ zabbix_hosts \in SUBSET (HostIds \X HostGroupIds)
    /\ zabbix_triggers \in SUBSET TriggerIds
    /\ host_group \in Tables(StoredHostGroupIds)
    /\ host = {}
    /\ host_to_host_group = {}
    /\ trigger \in Tables(TriggerIds)
    /\ notification_sink_to_trigger = {}
    /\ now = 1
    /\ InitActualizer
    /\ InitCollector
    /\ InitRequests
    /\ cast_diff = <<>>

CastHostGroupsDiff ==
    /\ cast_diff' = [actual |-> get_host_groups, saved |-> select(host_group),
                result |-> cast_host_groups_diff(get_host_groups, select(host_group))]
    /\ UNCHANGED <<source_vars, mirror_vars, notification_sink_to_trigger, now,
                   actualizer_vars, collector_vars, request_vars>>

\* the TriggersDiff under the field names of the HostGroupsDiff
CastTriggersDiff ==
    /\ LET d == cast_triggers_diff(get_triggers, select(trigger))
       IN  cast_diff' = [actual |-> get_triggers, saved |-> select(trigger),
                    result |-> [new_host_groups |-> d.appeared_triggers,
                                enabled_host_groups |-> d.enabled_triggers,
                                obsolete_host_groups |-> d.obsolete_triggers]]
    /\ UNCHANGED <<source_vars, mirror_vars, notification_sink_to_trigger, now,
                   actualizer_vars, collector_vars, request_vars>>

NextDiff == CastHostGroupsDiff \/ CastTriggersDiff

SpecDiff == InitDiff /\ [][NextDiff]_vars

\* ------------------------------------------------------- properties
ActiveIds(table) == {id \in DOMAIN table : table[id] = NULL}
DisabledIds(table) == {id \in DOMAIN table : table[id] # NULL}

\* a step that is one whole reconciliation tick
TickStep == actualizer_pc = "tick" /\ actualizer_pc' # "tick"

\* the three diffs a tick starting in the current state computes
TickHostGroupsDiff == cast_host_groups_diff(get_host_groups, select(host_group))
TickHostsDiff ==
    cast_hosts_diff(get_host_group_id_to_hosts,
                    saved_host_group_id_to_hosts(host_group, host_to_host_group))
TickTriggersDiff == cast_triggers_diff(get_triggers, select(trigger))

\* C4: a reconcile tick that follows a completed tick with no change of the
\* Snapshot Source in between issues no insert, enable or disable, and every
\* mutation set it computes (host groups, hosts, triggers) is empty.
C4_Idempotence ==
    [][(TickStep /\ settled) =>
          /\ applied' = AppliedEmpty
          /\ failed_step' = NO_FAILURE =>
                /\ TickHostGroupsDiff = HostGroupsDiffEmpty
                /\ TickHostsDiff = {}
                /\ TickTriggersDiff = TriggersDiffEmpty]_vars

\* C5: new, enabled and obsolete are pairwise disjoint and each id of actual or
\* saved is in exactly the class its membership in actual, saved-active and
\* saved-disabled defines: new, enabled, obsolete (one mutation set each) or
\* untouched-active, untouched-disabled (no mutation set).
C5_DiffCompleteness ==
    cast_diff # <<>> =>
        LET new == cast_diff.result.new_host_groups
            enabled == cast_diff.result.enabled_host_groups
            obsolete == cast_diff.result.obsolete_host_groups
            active == ActiveIds(cast_diff.saved)
            disabled == DisabledIds(cast_diff.saved)
        IN  /\ new \cap enabled = {}
            /\ new \cap obsolete = {}
            /\ enabled \cap obsolete = {}
            /\ new \cup enabled \cup obsolete
                   \subseteq cast_diff.actual \cup DOMAIN cast_diff.saved
            /\ \A id \in cast_diff.actual \cup DOMAIN cast_diff.saved :
                  /\ id \in new <=>
                        (id \in cast_diff.actual /\ id \notin DOMAIN cast_diff.saved)
                  /\ id \in enabled <=> (id \in disabled /\ id \in cast_diff.actual)
                  /\ id \in obsolete <=> (id \in active /\ id \notin cast_diff.actual)
                  /\ id \notin new \cup enabled \cup obsolete <=>
                        \/ (id \in active /\ id \in cast_diff.actual)
                        \/ (id \in disabled /\ id \notin cast_diff.actual)

C5_Witness ==
    /\ cast_diff # <<>>
    /\ cast_diff.result.enabled_host_groups # {}
    /\ cast_diff.result.obsolete_host_groups # {}
    /\ cast_diff.actual # {}

\* C6: a reconcile tick leaves every entity that is disabled in the mirror and
\* absent from the Snapshot Source out of all mutation sets, and its
\* disabled_at is the same after the tick as before.
C6_NoReDisable ==
    [][TickStep =>
          /\ \A id \in DisabledIds(host_group) \ get_host_groups :
                /\ host_group'[id] = host_group[id]
                /\ id \notin applied'.inserted_host_groups
                /\ id \notin applied'.enabled_host_groups
                /\ id \notin applied'.disabled_host_groups
          /\ \A id \in DisabledIds(trigger) \ get_triggers :
                /\ trigger'[id] = trigger[id]
                /\ id \notin applied'.inserted_triggers
                /\ id \notin applied'.enabled_triggers
                /\ id \notin applied'.disabled_triggers]_vars

\* a group disabled at an earlier time is still absent from the source after
\* a tick that ran the whole host-group reconciliation at the current time
C6_Witness ==
    /\ actualizer_pc = "sleep"
    /\ failed_step = NO_FAILURE
    /\ \E id \in DisabledIds(host_group) : host_group[id] < now /\ id \notin get_host_groups

\* the host-group reconciliation of the tick just finished raised nothing
HostGroupsActualized(step) ==
    step \notin STEP_GET_HOST_GROUPS..STEP_DISABLE_HOST_GROUPS

\* C7: after a host-group reconciliation that raised nothing, the active
\* host-group ids of the mirror are the ids the Snapshot Source reports; source
\* {1,2} on mirror {1 active, 2 disabled} gives {1 active, 2 active} by no
\* insert, the one enable of [2] and no disable.
C7_ActiveEqualsSource ==
    [][(TickStep /\ HostGroupsActualized(failed_step')) =>
          /\ ActiveIds(host_group') = get_host_groups
          /\ (/\ get_host_groups = {1, 2}
              /\ DOMAIN host_group = {1, 2}
              /\ host_group[1] = NULL
              /\ host_group[2] # NULL)
             => /\ host_group' = [id \in {1, 2} |-> NULL]
                /\ applied'.inserted_host_groups = {}
                /\ applied'.enabled_host_groups = {2}
                /\ applied'.disabled_host_groups = {}]_vars

C7_Witness ==
    /\ actualizer_pc = "sleep"
    /\ HostGroupsActualized(failed_step)
    /\ get_host_groups = {1, 2}
    /\ ActiveIds(host_group) = {1, 2}
    /\ applied.inserted_host_groups = {}
    /\ applied.enabled_host_groups = {2}
    /\ applied.disabled_host_groups = {}

\* C8: a reconcile tick that raised nothing has disabled every trigger that was
\* active in the mirror and absent from the Snapshot Source, and re-enabled
\* every trigger that was disabled in the mirror and present in the source.
C8_TriggersLikeHostGroups ==
    [][(TickStep /\ failed_step' = NO_FAILURE) =>
          /\ \A t \in ActiveIds(trigger) \ get_triggers : trigger'[t] # NULL
          /\ \A t \in DisabledIds(trigger) \cap get_triggers : trigger'[t] = NULL
          /\ get_triggers \subseteq DOMAIN trigger']_vars

\* C9: a reconciliation tick that raised, at any step, does not end the loop:
\* the loop comes back to the start of a tick, and every started tick finishes.
C9_TickFailureNotFatal ==
    /\ [](actualizer_pc # "crashed")
    /\ (failed_step # NO_FAILURE) ~> (actualizer_pc = "tick")
    /\ (actualizer_pc = "tick") ~> (actualizer_pc = "sleep")

\* a tick raised after an earlier tick had filled the mirror
C9_Witness ==
    /\ actualizer_pc = "sleep"
    /\ failed_step # NO_FAILURE
    /\ DOMAIN host_group # {}

\* C1: in every detection tick the raised events are the problems of the
\* current snapshot whose external id is not in the previous snapshot, with
\* resolved_at null, and the resolved events are the problems of the previous
\* snapshot whose external id is not in the current one, built from the
\* previous record with resolved_at set; one event each.
C1_TransitionDetection ==
    collector_pc = "dispatch" =>
        LET raised == {events[i] : i \in {j \in 1..Len(events) : events[j].resolved_at = NULL}}
            resolved == {events[i] : i \in {j \in 1..Len(events) : events[j].resolved_at # NULL}}
            raised_ids == DOMAIN current_cycle_problems \ DOMAIN previous_cycle_problems
            resolved_ids == DOMAIN previous_cycle_problems \ DOMAIN current_cycle_problems
        IN  /\ raised = {[external_id |-> p, trigger_id |-> ProblemTrigger(p),
                          opdata |-> current_cycle_problems[p], resolved_at |-> NULL]
                         : p \in raised_ids}
            /\ resolved = {[external_id |-> p, trigger_id |-> ProblemTrigger(p),
                            opdata |-> previous_cycle_problems[p], resolved_at |-> now]
                           : p \in resolved_ids}
            /\ now # NULL
            /\ Len(events) = Cardinality(raised_ids) + Cardinality(resolved_ids)
            /\ (DOMAIN previous_cycle_problems = {1} /\ DOMAIN current_cycle_problems = {2})
               => ({e.external_id : e \in raised} = {2}
                   /\ {e.external_id : e \in resolved} = {1})

\* a tick with one problem gone and another one new
C1_Witness ==
    /\ collector_pc = "dispatch"
    /\ DOMAIN previous_cycle_problems = {1}
    /\ DOMAIN current_cycle_problems = {2}
    /\ Len(events) = 2

\* C2: a tick whose get_problems raises leaves previous_cycle_problems as it
\* was and goes to its sleep with no event handed to the dispatcher.
C2_FailedFetchKeepsBaseline ==
    /\ [][(collector_pc = "fetch" /\ fetch_failed') =>
             /\ previous_cycle_problems' = previous_cycle_problems
             /\ events' = <<>>
             /\ collector_pc' = "sleep"]_vars
    /\ []((fetch_failed /\ collector_pc = "sleep") =>
             (events = <<>> /\ handled = HandledNothing))

\* a tick failed its fetch while the baseline held an open problem
C2_Witness ==
    /\ fetch_failed
    /\ collector_pc = "sleep"
    /\ previous_cycle_problems # EmptyFn

\* C3: when an event has two or more recipients and the notifier call for the
\* first of them raises, the notifier is still called once for every other
\* recipient of the event.
C3_FanOutIsolation ==
    (/\ handled # HandledNothing
     /\ Len(handled.recipients) >= 2
     /\ handled.raised_at = 1)
    => handled.invoked = handled.recipients

\* C10: after a get_problems call that raised, the baseline fetch included,
\* the detection loop is at its sleep, from which the next tick starts.
C10_SourceFailureNeverFatal ==
    fetch_failed => collector_pc = "sleep"

\* C11: the baseline is the one fetch made before the loop, so the first tick
\* emits an event exactly for the external ids that are in one of the startup
\* snapshot and the first tick's snapshot and not in the other, and no raised
\* event for a problem that was open at startup.
C11_BaselineBeforeFirstTick ==
    /\ [][(collector_pc = "init" /\ collector_pc' = "fetch") =>
             /\ current_cycle_problems' \in Snapshots
             /\ first_tick']_vars
    /\ [][(first_tick /\ collector_pc = "fetch" /\ collector_pc' = "dispatch") =>
             LET startup == DOMAIN current_cycle_problems
                 first == DOMAIN current_cycle_problems'
             IN  /\ {events'[i].external_id : i \in 1..Len(events')} =
                        (startup \ first) \cup (first \ startup)
                 /\ \A i \in 1..Len(events') :
                        events'[i].resolved_at = NULL =>
                            events'[i].external_id \notin startup]_vars

\* the first tick found one problem still open and one change
C11_Witness ==
    /\ first_tick
    /\ collector_pc = "dispatch"
    /\ DOMAIN previous_cycle_problems \cap DOMAIN current_cycle_problems # {}
    /\ Len(events) = 1

\* C12: for an event with recipients whose lookups raised nothing, the
\* notifier operation is notify_event_raised when resolved_at is null and
\* notify_event_resolved when it is set, and it is invoked once for every
\* subscribed recipient.
C12_OperationOncePerRecipient ==
    (/\ handled # HandledNothing
     /\ handled.recipients # <<>>
     /\ handled.raised_in \notin {"sinks", "components"})
    => /\ handled.operation = (IF handled.event.resolved_at = NULL
                               THEN "notify_event_raised" ELSE "notify_event_resolved")
       /\ Len(handled.invoked) = Len(handled.recipients)
       /\ \A sink \in {handled.recipients[i] : i \in 1..Len(handled.recipients)} :
              Cardinality({i \in 1..Len(handled.invoked) : handled.invoked[i] = sink}) = 1

\* a step that is one iteration of the loop of handle_monitoring_events
HandleStep == collector_pc = "dispatch" /\ event_index' = event_index + 1

\* C13: handling an event whose trigger has no subscribed recipient calls no
\* notifier, looks up no message component (trigger, host, host groups),
\* raises nothing and changes nothing of the mirror or the subscriptions.
C13_NoRecipientNoOp ==
    [][(/\ HandleStep
        /\ get_notification_sinks_by_trigger_id(events[event_index + 1].trigger_id) = {}
        /\ handled'.raised_in # "sinks")
       => /\ handled'.event = events[event_index + 1]
          /\ handled'.recipients = <<>>
          /\ handled'.invoked = <<>>
          /\ handled'.operation = "none"
          /\ handled'.components_fetched = 0
          /\ handled'.raised_in = "none"
          /\ ~handled'.failed
          /\ UNCHANGED <<mirror_vars, notification_sink_to_trigger>>]_vars

\* an event with no recipient was handled
C13_Witness ==
    /\ handled # HandledNothing
    /\ get_notification_sinks_by_trigger_id(handled.event.trigger_id) = {}
    /\ handled.recipients = <<>>
    /\ handled.raised_in = "none"

\* C14: when the subscription lookup or the message-component lookup of an
\* event raises, no notifier is called for that event, the dispatch goes on
\* with the next event of the same batch, and the batch ends only when every
\* event has been handled, with the tick completing as after a normal return
\* of handle_monitoring_events.
C14_PerEventIsolation ==
    /\ [][(HandleStep /\ handled'.raised_in \in {"sinks", "components"}) =>
             /\ handled'.failed
             /\ handled'.invoked = <<>>
             /\ collector_pc' = "dispatch"
             /\ events' = events
             /\ previous_cycle_problems' = previous_cycle_problems]_vars
    /\ [][(collector_pc = "dispatch" /\ collector_pc' # "dispatch") =>
             /\ event_index = Len(events)
             /\ collector_pc' = "sleep"
             /\ ~fetch_failed'
             /\ previous_cycle_problems' = current_cycle_problems]_vars

\* a lookup raised for an event that is not the last of its batch
C14_Witness ==
    /\ collector_pc = "dispatch"
    /\ handled # HandledNothing
    /\ handled.raised_in \in {"sinks", "components"}
    /\ event_index < Len(events)

\* C15: a subscribe_all call of a recipient adds exactly the links of that
\* recipient to the source triggers it does not follow yet, and returns their
\* number (0, with no link added, when it follows every source trigger).
C15_SubscribeAllInsertsDifference ==
    [][(\/ subscribe_returned' # subscribe_returned
        \/ notification_sink_to_trigger' \ notification_sink_to_trigger # {})
       => \E sink \in SinkIds :
            LET followed == {l[2] : l \in {x \in notification_sink_to_trigger : x[1] = sink}}
                expected == {<<sink, t>> : t \in zabbix_triggers \ followed}
            IN  /\ notification_sink_to_trigger' =
                       notification_sink_to_trigger \cup expected
                /\ subscribe_returned' = Cardinality(expected)]_vars

\* C16: an on-demand get_unresolved_events request, at any point of the
\* detection loop, returns one event per problem of a snapshot of its own,
\* resolved at the time of the request, and leaves every variable of the
\* loop as it was; previous_cycle_problems changes only at the
\* baseline fetch and at the end of a tick, and the events of every tick are
\* those of the difference between the loop's own two snapshots.
C16_OnDemandLeavesBaseline ==
    /\ [][unresolved_events' # unresolved_events =>
             /\ UNCHANGED collector_vars
             /\ \A e \in unresolved_events' :
                    /\ e.external_id \in ProblemIds
                    /\ e.trigger_id = ProblemTrigger(e.external_id)
                    /\ e.opdata \in Opdata
                    /\ e.resolved_at = now
             /\ Cardinality(unresolved_events') =
                    Cardinality({e.external_id : e \in unresolved_events'})]_vars
    /\ [][previous_cycle_problems' # previous_cycle_problems =>
             /\ collector_pc \in {"init", "dispatch"}
             /\ previous_cycle_problems' = current_cycle_problems']_vars
    /\ [][(collector_pc = "fetch" /\ collector_pc' = "dispatch") =>
             {events'[i].external_id : i \in 1..Len(events')} =
                 (DOMAIN previous_cycle_problems \ DOMAIN current_cycle_problems')
                 \cup (DOMAIN current_cycle_problems' \ DOMAIN previous_cycle_problems)]_vars

\* a request answered in the middle of a tick from a snapshot that is neither
\* of the two snapshots of the loop
C16_Witness ==
    /\ collector_pc = "dispatch"
    /\ events # <<>>
    /\ unresolved_events # {}
    /\ {e.external_id : e \in unresolved_events} # DOMAIN current_cycle_problems
    /\ {e.external_id : e \in unresolved_events} # DOMAIN previous_cycle_problems

\* C17: in each loop a tick starts only from the loop's sleep (the first
\* detection tick from the baseline fetch), and the sleep starts only when the
\* tick in flight has finished: a reconciliation tick that raised or completed,
\* a detection tick whose fetch raised or whose dispatch ended and whose
\* baseline was updated; time passing during a tick starts no other tick.
C17_OneTickInFlight ==
    /\ [][(actualizer_pc' = "tick" /\ actualizer_pc # "tick") =>
             actualizer_pc = "sleep"]_vars
    /\ [][(actualizer_pc' = "sleep" /\ actualizer_pc # "sleep") =>
             actualizer_pc = "tick"]_vars
    /\ [][(collector_pc' = "fetch" /\ collector_pc # "fetch") =>
             collector_pc \in {"init", "sleep"}]_vars
    /\ [][(collector_pc' = "dispatch" /\ collector_pc # "dispatch") =>
             collector_pc = "fetch"]_vars
    /\ [][(collector_pc' = "sleep" /\ collector_pc # "sleep") =>
             \/ collector_pc = "fetch" /\ fetch_failed'
             \/ /\ collector_pc = "dispatch"
                /\ event_index = Len(events)
                /\ previous_cycle_problems' = current_cycle_problems]_vars
    /\ [][(collector_pc = "dispatch" /\ now' # now) => collector_pc' = "dispatch"]_vars

\* a detection tick still in its dispatch after the clock has moved on since
\* its fetch
C17_Witness ==
    /\ collector_pc = "dispatch"
    /\ event_index < Len(events)
    /\ \E i \in 1..Len(events) :
           events[i].resolved_at # NULL /\ events[i].resolved_at < now

\* C18: under fair scheduling each of the two loops executes infinitely many
\* ticks, whatever the other loop does.
C18_BothLoopsTickForever ==
    /\ []<>(actualizer_pc = "tick")
    /\ []<>(actualizer_pc = "sleep")
    /\ []<>(collector_pc = "fetch")
    /\ []<>(collector_pc = "sleep")

\* C19: no step, whatever the source reports, removes a host-group id, a host
\* id, a trigger id or a host-to-group link from the mirror, and a host group
\* that vanished from the source is still a row after the tick that handled
\* it, with disabled_at set.
C19_NoHistoryDeleted ==
    [][/\ DOMAIN host_group \subseteq DOMAIN host_group'
       /\ host \subseteq host'
       /\ DOMAIN trigger \subseteq DOMAIN trigger'
       /\ host_to_host_group \subseteq host_to_host_group'
       /\ (TickStep /\ HostGroupsActualized(failed_step')) =>
             \A g \in DOMAIN host_group \ get_host_groups :
                 g \in DOMAIN host_group' /\ host_group'[g] # NULL]_vars

\* a tick has just disabled a host group that vanished from the source while
\* its hosts and links are still recorded
C19_Witness ==
    /\ actualizer_pc = "sleep"
    /\ applied.disabled_host_groups # {}
    /\ \A g \in applied.disabled_host_groups :
           /\ g \in DisabledIds(host_group)
           /\ g \notin get_host_groups
           /\ \E l \in host_to_host_group : l[2] = g /\ l[1] \in host

\* C20: the only change a reconcile tick makes to the hosts and the
\* host-to-group links is the insertion of hosts and links the source reports;
\* every saved host and link is kept, the links of hosts that left their group
\* or vanished from the source included.
C20_HostsInsertOnly ==
    [][TickStep =>
          /\ host' = host \cup applied'.inserted_hosts
          /\ host_to_host_group' =
                 host_to_host_group \cup applied'.inserted_host_to_host_groups
          /\ applied'.inserted_host_to_host_groups \subseteq zabbix_hosts
          /\ applied'.inserted_hosts \subseteq {l[1] : l \in zabbix_hosts}
          /\ \A l \in host_to_host_group \ zabbix_hosts :
                 l \in host_to_host_group' /\ l[1] \in host']_vars

\* a tick that raised nothing left the link of a host that is no longer in
\* that group in the source
C20_Witness ==
    /\ actualizer_pc = "sleep"
    /\ failed_step = NO_FAILURE
    /\ \E l \in host_to_host_group : l \notin zabbix_hosts /\ l[1] \in host

\* C21 (as stated): the saved read select returns holds only rows with a
\* positive id and a null disabled_at.
C21_SelectActiveOnly ==
    cast_diff # <<>> =>
        \A id \in DOMAIN cast_diff.saved : id > 0 /\ cast_diff.saved[id] = NULL

\* C21 (amended): the saved read of a reconciliation is every row of the table
\* with a positive id, the disabled ones included, each with its disabled_at.
C21_SelectPositiveIds ==
    [][cast_diff' # cast_diff =>
          \/ /\ DOMAIN cast_diff'.saved = {id \in DOMAIN host_group : id > 0}
             /\ \A id \in DOMAIN cast_diff'.saved : cast_diff'.saved[id] = host_group[id]
             /\ cast_diff'.actual = get_host_groups
          \/ /\ DOMAIN cast_diff'.saved = {id \in DOMAIN trigger : id > 0}
             /\ \A id \in DOMAIN cast_diff'.saved : cast_diff'.saved[id] = trigger[id]
             /\ cast_diff'.actual = get_triggers]_vars

\* a read of a host-group table with a disabled row, an active row and a row
\* whose id is not positive
C21_Witness ==
    /\ cast_diff # <<>>
    /\ DisabledIds(cast_diff.saved) # {}
    /\ ActiveIds(cast_diff.saved) # {}
    /\ DOMAIN host_group \ DOMAIN cast_diff.saved # {}
    /\ DOMAIN cast_diff.saved \subseteq DOMAIN host_group

\* C22: the three mutations of a host-group reconciliation are the insert of
\* the new ids, then the enable of the re-appeared ids, then the disable of the
\* vanished ids, all three sets taken from the one diff of the tick's two
\* reads: a tick that raised at the enable has inserted and nothing more, one
\* that raised at the disable has inserted and enabled, one that raised
\* earlier has changed no host group, and one that got past the disable has
\* applied all three.
C22_HostGroupMutationOrder ==
    [][TickStep =>
          LET new == TickHostGroupsDiff.new_host_groups
              enabled == TickHostGroupsDiff.enabled_host_groups
              obsolete == TickHostGroupsDiff.obsolete_host_groups
              inserted_done == failed_step' \notin
                                   STEP_GET_HOST_GROUPS..STEP_INSERT_HOST_GROUPS
              enabled_done == failed_step' \notin
                                  STEP_GET_HOST_GROUPS..STEP_ENABLE_HOST_GROUPS
              disabled_done == failed_step' \notin
                                   STEP_GET_HOST_GROUPS..STEP_DISABLE_HOST_GROUPS
          IN  /\ DOMAIN host_group' =
                     DOMAIN host_group \cup (IF inserted_done THEN new ELSE {})
              /\ \A id \in new : inserted_done => host_group'[id] = NULL
              /\ \A id \in enabled :
                     host_group'[id] = IF enabled_done THEN NULL ELSE host_group[id]
              /\ \A id \in obsolete :
                     host_group'[id] = IF disabled_done THEN now ELSE host_group[id]
              /\ \A id \in DOMAIN host_group \ (enabled \cup obsolete) :
                     host_group'[id] = host_group[id]]_vars

\* a tick raised at the disable after it had inserted a new host group: the
\* vanished group is still active
C22_Witness ==
    /\ actualizer_pc = "sleep"
    /\ failed_step = STEP_DISABLE_HOST_GROUPS
    /\ applied.inserted_host_groups # {}
    /\ ActiveIds(host_group) \ (get_host_groups \cup applied.inserted_host_groups) # {}

\* C23: in the event list of a tick no raised event comes after a resolved
\* one, and the dispatcher handles the events one at a time in list order: each
\* iteration handles, whole, the event that follows the ones already handled
\* and leaves the list as it is.
C23_RaisedFirstInOrder ==
    /\ [](collector_pc = "dispatch" =>
             \A i, j \in 1..Len(events) :
                 (i < j /\ events[i].resolved_at # NULL) => events[j].resolved_at # NULL)
    /\ [][HandleStep =>
             /\ event_index < Len(events)
             /\ handled'.event = events[event_index + 1]
             /\ events' = events
             /\ collector_pc' = "dispatch"]_vars
    /\ [][(collector_pc = "dispatch" /\ event_index' # event_index) =>
             event_index' = event_index + 1]_vars
    /\ [](collector_pc = "dispatch" =>
             /\ event_index \in 0..Len(events)
             /\ event_index > 0 => handled.event = events[event_index])

\* the raised event of a tick has been handled and its resolved event is next
C23_Witness ==
    /\ collector_pc = "dispatch"
    /\ Len(events) = 2
    /\ event_index = 1
    /\ events[1].resolved_at = NULL
    /\ events[2].resolved_at # NULL
    /\ handled.event = events[1]

\* the (external id, raised or resolved) pairs of an event list
Transitions(event_list) ==
    {<<event_list[i].external_id, event_list[i].resolved_at = NULL>>
     : i \in 1..Len(event_list)}

\* C24: at the end of every tick whose fetch succeeded previous_cycle_problems
\* is the snapshot of that tick, whether the handling of its events failed or
\* not, and the next tick emits none of the transitions of that tick again.
C24_BaselineAdvancesNoRetry ==
    /\ []((collector_pc = "sleep" /\ ~fetch_failed) =>
             previous_cycle_problems = current_cycle_problems)
    /\ [][(collector_pc = "dispatch" /\ collector_pc' # "dispatch") =>
             previous_cycle_problems' = current_cycle_problems]_vars
    /\ [][(collector_pc = "fetch" /\ collector_pc' = "dispatch") =>
             Transitions(events') \cap Transitions(events) = {}]_vars

\* a tick ended after the fan-out of its last event had failed
C24_Witness ==
    /\ collector_pc = "sleep"
    /\ ~fetch_failed
    /\ events # <<>>
    /\ handled # HandledNothing
    /\ handled.failed
    /\ previous_cycle_problems = current_cycle_problems

\* C25: current_cycle_problems is assigned by successful fetches only, so at
\* the head of a tick it is the snapshot of the most recent successful fetch
\* (the startup baseline at first).  A tick whose fetch succeeds raises exactly
\* the ids its snapshot adds to that one and resolves exactly the ids it
\* lacks; a tick whose fetch fails emits no event and keeps that snapshot.
C25_DiffAgainstLastSuccessfulFetch ==
    /\ [][(collector_pc = "fetch" /\ collector_pc' = "dispatch") =>
             /\ {events'[i].external_id :
                     i \in {j \in 1..Len(events') : events'[j].resolved_at = NULL}}
                    = DOMAIN current_cycle_problems' \ DOMAIN current_cycle_problems
             /\ {events'[i].external_id :
                     i \in {j \in 1..Len(events') : events'[j].resolved_at # NULL}}
                    = DOMAIN current_cycle_problems \ DOMAIN current_cycle_problems']_vars
    /\ [][(collector_pc = "fetch" /\ collector_pc' = "sleep") =>
             /\ fetch_failed'
             /\ events' = <<>>
             /\ current_cycle_problems' = current_cycle_problems]_vars
    /\ [](collector_pc = "fetch" => previous_cycle_problems = current_cycle_problems)

\* a fetch failed in a tick after the first, with problems open in the
\* snapshot of the last successful fetch
C25_Witness ==
    /\ collector_pc = "sleep"
    /\ fetch_failed
    /\ ~first_tick
    /\ DOMAIN current_cycle_problems # {}
    /\ previous_cycle_problems = current_cycle_problems

\* C26: a problem whose external id is in both the previous and the current
\* snapshot gets no event in that tick, raised or resolved, whether or not its
\* content changed between the two.
C26_ComparedByExternalIdOnly ==
    [][(collector_pc = "fetch" /\ collector_pc' = "dispatch") =>
          \A p \in DOMAIN previous_cycle_problems \cap DOMAIN current_cycle_problems' :
              \A i \in 1..Len(events') : events'[i].external_id # p]_vars

\* a tick found a problem still open with another opdata, and a transition of
\* another problem
C26_Witness ==
    /\ collector_pc = "dispatch"
    /\ \E p \in DOMAIN previous_cycle_problems \cap DOMAIN current_cycle_problems :
           previous_cycle_problems[p] # current_cycle_problems[p]
    /\ Len(events) = 1

\* the positions of the events of a list for external id p, raised or resolved
EventsOf(event_list, p, raised) ==
    {i \in 1..Len(event_list) :
        event_list[i].external_id = p /\ (event_list[i].resolved_at = NULL) = raised}

\* C27: a tick whose snapshot lacks a problem of the previous successful
\* snapshot emits exactly one resolved event and no raised event for it, and
\* when the tick before has resolved a problem and the snapshot of this tick
\* has it again, this tick emits exactly one raised event and no resolved event
\* for it.
C27_DisappearanceReappearance ==
    [][(collector_pc = "fetch" /\ collector_pc' = "dispatch") =>
          /\ \A p \in DOMAIN current_cycle_problems \ DOMAIN current_cycle_problems' :
                /\ Cardinality(EventsOf(events', p, FALSE)) = 1
                /\ EventsOf(events', p, TRUE) = {}
          /\ \A p \in DOMAIN current_cycle_problems' :
                EventsOf(events, p, FALSE) # {} =>
                    /\ Cardinality(EventsOf(events', p, TRUE)) = 1
                    /\ EventsOf(events', p, FALSE) = {}]_vars

\* the tick before has resolved a problem that was open at an earlier tick, and
\* the next tick is about to fetch
C27_Witness ==
    /\ collector_pc = "fetch"
    /\ ~first_tick
    /\ \E p \in ProblemIds :
           /\ EventsOf(events, p, FALSE) # {}
           /\ p \notin DOMAIN previous_cycle_problems
           /\ p \notin DOMAIN current_cycle_problems

\* C28: in the event list of every tick no external id has both a raised and
\* a resolved event, and no external id has two events.
C28_OneEventPerExternalId ==
    /\ {events[i].external_id :
            i \in {j \in 1..Len(events) : events[j].resolved_at = NULL}}
       \cap
       {events[i].external_id :
            i \in {j \in 1..Len(events) : events[j].resolved_at # NULL}} = {}
    /\ \A i, j \in 1..Len(events) :
           events[i].external_id = events[j].external_id => i = j

\* a tick with a raised and a resolved event
C28_Witness ==
    /\ collector_pc = "dispatch"
    /\ ~first_tick
    /\ \E i, j \in 1..Len(events) :
           events[i].resolved_at = NULL /\ events[j].resolved_at # NULL

\* C29: for an event with one or more recipients the message components
\* (trigger, host, host groups) are looked up once, whatever the number of
\* recipients, and no notifier is called when that lookup raised.
C29_ComponentsFetchedOnce ==
    (handled # HandledNothing /\ handled.recipients # <<>>) =>
        /\ handled.components_fetched = 1
        /\ handled.raised_in = "components" => handled.invoked = <<>>
        /\ handled.invoked # <<>> => handled.raised_in \in {"none", "notifier"}

\* an event whose two recipients were both notified
C29_Witness ==
    /\ handled # HandledNothing
    /\ Len(handled.recipients) = 2
    /\ handled.invoked = handled.recipients
    /\ handled.components_fetched = 1

\* C30: a reconcile tick that raised keeps what it had applied before and
\* applies nothing after: when the enable or the disable raised, the new host
\* groups are rows of the mirror and hosts, links and triggers are untouched;
\* when the host reconciliation raised, the host groups of the source are
\* active rows and the triggers are untouched; when the trigger
\* reconciliation raised, the host rows inserted stay.  What a tick inserts
\* is computed from the mirror as the tick before left it: never a row that
\* is already there.
C30_PartialApplicationKept ==
    [][TickStep =>
          /\ failed_step' \in {STEP_ENABLE_HOST_GROUPS, STEP_DISABLE_HOST_GROUPS} =>
                /\ DOMAIN host_group' = DOMAIN host_group \cup get_host_groups
                /\ \A id \in get_host_groups \ DOMAIN host_group : host_group'[id] = NULL
                /\ UNCHANGED <<host, host_to_host_group, trigger>>
          /\ failed_step' \in STEP_GET_HOST_GROUPS..STEP_INSERT_HOST_GROUPS =>
                UNCHANGED mirror_vars
          /\ failed_step' \in STEP_GET_HOSTS..STEP_INSERT_HOST_SOURCES =>
                /\ ActiveIds(host_group') = get_host_groups
                /\ trigger' = trigger
          /\ failed_step' \in STEP_GET_HOSTS..STEP_SELECT_HOSTS =>
                UNCHANGED <<host, host_to_host_group>>
          /\ failed_step' \in STEP_GET_TRIGGERS..STEP_INSERT_TRIGGERS =>
                /\ ActiveIds(host_group') = get_host_groups
                /\ host' = host \cup applied'.inserted_hosts
                /\ trigger' = trigger
          /\ applied'.inserted_host_groups \cap DOMAIN host_group = {}
          /\ applied'.inserted_hosts \cap host = {}
          /\ applied'.inserted_host_to_host_groups \cap host_to_host_group = {}
          /\ applied'.inserted_triggers \cap DOMAIN trigger = {}]_vars

\* a tick raised at the enable after it had inserted a new host group
C30_Witness ==
    /\ actualizer_pc = "sleep"
    /\ failed_step = STEP_ENABLE_HOST_GROUPS
    /\ applied.inserted_host_groups # {}
    /\ applied.inserted_host_groups \subseteq ActiveIds(host_group)
    /\ applied.inserted_hosts = {}

\* C31: the new host sources of a tick are the (host, group) pairs of the
\* Snapshot Source that the mirror does not record under that same group: a tick
\* that read both sides inserts join rows of these pairs only, all of them when
\* the insertion does not raise, and a pair whose host is already a Host row
\* (recorded under another group) is among them, its insertion being attempted.
C31_HostDiffPerGroup ==
    [][(TickStep /\ failed_step' \notin STEP_GET_HOST_GROUPS..STEP_SELECT_HOSTS) =>
          LET new_host_sources ==
                  {s \in get_host_group_id_to_hosts : s \notin host_to_host_group}
          IN  /\ applied'.inserted_host_to_host_groups \subseteq new_host_sources
              /\ failed_step' # STEP_INSERT_HOST_SOURCES =>
                     applied'.inserted_host_to_host_groups = new_host_sources
              /\ (\E s \in new_host_sources : s[1] \in host) =>
                     failed_step' = STEP_INSERT_HOST_SOURCES]_vars

\* a tick met a source pair whose host the mirror records under another group only
C31_Witness ==
    /\ actualizer_pc = "sleep"
    /\ failed_step = STEP_INSERT_HOST_SOURCES
    /\ \E s \in get_host_group_id_to_hosts \ host_to_host_group :
           \E l \in host_to_host_group : l[1] = s[1] /\ l[2] # s[2]

\* C32: host reconciliation never inserts a Host whose id is already a row of
\* the mirror: with no database error, the insertion of the new host sources of
\* a tick raises in none of its orders (for a known host, or a host listed under
\* two groups, only the missing join row is inserted).
C32_NoExistingHostInserted ==
    actualizer_pc = "tick" =>
        \A out \in insert_host_sources(TickHostsDiff, host, host_to_host_group, FALSE) :
            /\ out.ok
            /\ out.host_to_host_group = host_to_host_group \cup TickHostsDiff

\* C33: get_unresolved_events(recipient) returns one event for every open
\* problem whose trigger the recipient is subscribed to and no other event,
\* also when several open problems belong to one subscribed trigger.
C33_EventPerOpenSubscribedProblem ==
    [][sink_events' # sink_events =>
          sink_events'.events =
              {e \in unresolved_events' :
                  <<sink_events'.notification_sink, e.trigger_id>>
                      \in notification_sink_to_trigger}]_vars

\* C34: every event of the on-demand unresolved-events query carries a
\* resolved_at that is not null, the time of the query, and every raised event
\* of the cycle-over-cycle diff (a problem of the current snapshot that the
\* previous one lacks) carries resolved_at null.
C34_ResolvedAtOfOnDemandAndRaised ==
    /\ [][unresolved_events' # unresolved_events =>
             \A e \in unresolved_events' :
                 e.resolved_at # NULL /\ e.resolved_at = now']_vars
    /\ [](collector_pc = "dispatch" =>
             \A i \in 1..Len(events) :
                 events[i].external_id \in
                     DOMAIN current_cycle_problems \ DOMAIN previous_cycle_problems
                 => events[i].resolved_at = NULL)

\* one problem is both a raised event of the tick in flight and an event of an
\* on-demand query
C34_Witness ==
    /\ collector_pc = "dispatch"
    /\ \E i \in 1..Len(events) :
           /\ events[i].resolved_at = NULL
           /\ \E e \in unresolved_events :
                  e.external_id = events[i].external_id /\ e.resolved_at # NULL

\* C35: a step that removes subscription links removes all the links of one
\* recipient and nothing else (the links of the other recipients and the
\* host-group, host and trigger records stay), and an event handled while a
\* recipient has no link is fanned out to no notifier call for that recipient.
C35_UnsubscribeAllFrame ==
    /\ [][~(notification_sink_to_trigger \subseteq notification_sink_to_trigger') =>
             /\ \E sink \in SinkIds :
                    notification_sink_to_trigger' =
                        {l \in notification_sink_to_trigger : l[1] # sink}
             /\ UNCHANGED <<mirror_vars, source_vars>>]_vars
    /\ [][HandleStep =>
             \A sink \in SinkIds :
                 (\A l \in notification_sink_to_trigger : l[1] # sink) =>
                     /\ \A i \in 1..Len(handled'.recipients) :
                            handled'.recipients[i] # sink
                     /\ \A i \in 1..Len(handled'.invoked) :
                            handled'.invoked[i] # sink]_vars

\* in the middle of a tick a recipient of the event handled last has no link
\* any more, while another recipient of that event still has its link
C35_Witness ==
    /\ collector_pc = "dispatch"
    /\ handled # HandledNothing
    /\ \E i, j \in 1..Len(handled.recipients) :
           /\ \A l \in notification_sink_to_trigger : l[1] # handled.recipients[i]
           /\ <<handled.recipients[j], handled.event.trigger_id>>
                  \in notification_sink_to_trigger

\* C36: whatever the interleaving of the steps of subscribe_all with the
\* reconciliation loop, every subscription link is to a trigger id that is a
\* row of the mirror's trigger table: a trigger the Snapshot Source reports and
\* reconciliation has not inserted yet is never linked.
C36_LinksToMirroredTriggersOnly ==
    \A l \in notification_sink_to_trigger : l[2] \in DOMAIN trigger

\* a subscribe_all call built its links while the source reported a trigger the
\* mirror lacks, its insert raised and no link exists
C36_Witness ==
    /\ subscribe_returned = RAISED
    /\ subscribing = <<>>
    /\ notification_sink_to_trigger = {}
    /\ get_triggers \ DOMAIN trigger # {}

\* C37: two subscribe_all calls of one recipient whose steps interleave, or a
\* subscribe_all interleaved with the subscription to one trigger, never insert
\* a link that already exists: the insert of a call finds none of its links in
\* the table, adds them all, and the call does not fail.
C37_InterleavedSubscribeNeverFails ==
    [][Len(subscribing') < Len(subscribing) =>
          \E i \in 1..Len(subscribing) :
              LET links == subscribing[i].notification_sink_to_triggers
              IN  /\ subscribing' = RemoveAt(subscribing, i)
                  /\ links \cap notification_sink_to_trigger = {}
                  /\ notification_sink_to_trigger' = notification_sink_to_trigger \cup links
                  /\ subscribe_returned' # RAISED]_vars

====
